---- MODULE Spec2Model ----
(***************************************************************************)
(* AI Job Hunter: the iterative resume optimizer (llm_engine.py), the      *)
(* one-shot Deep Analysis (llm_engine.py), the keyword-overlap triage      *)
(* (agent_controller.py) and the session handlers that call them (app.py). *)
(*                                                                         *)
(* Texts are sequences of lexemes.  A lexeme is a record [c, s, n]:        *)
(*   c = "ch"    a run of ordinary characters s (one character in every    *)
(*               text an input supplies, a literal of the code otherwise)  *)
(*   c = "fence" a markdown code fence (three backquotes)                  *)
(*   c = "json"  the word json directly after a fence                      *)
(*   c = "lb", "rb", "lsq", "rsq"   the JSON punctuation { } [ ]           *)
(*   c = "key"   a JSON member name s with its colon                       *)
(*   c = "int"   a JSON integer literal n                                  *)
(*   c = "float" a JSON number with a fraction, n counted in tenths        *)
(*   c = "str"   a JSON string literal s                                   *)
(*   c = "null"  the JSON literal null                                     *)
(* The same records, classes int/float/str/null, stand for the Python      *)
(* values json.loads produces.  The Gemini API key is configured in every  *)
(* run modelled here (_get_llm returns a client).                          *)
(***************************************************************************)
EXTENDS Integers, Sequences, FiniteSets, TLC

VARIABLES
    pc,            \* optimizer: "drafter" | "grader" | "done"
    state,         \* optimizer: the ResumeState threaded through the graph
    outcome,       \* optimizer: "running" | "returned" | "raised"
    result,        \* optimizer: the text returned to the caller
    error,         \* optimizer: the exception the controller caught, "" if none
    provider,      \* optimizer: the provider response consumed by the last node
    prompt,        \* optimizer: the user prompt of the last drafter invocation
    drafterCalls,  \* optimizer: drafter_node executions so far
    graderCalls,   \* optimizer: grader_node executions so far
    grades,        \* optimizer: the scores recorded by the grader, in order
    da,            \* Deep Analysis: the call, its provider response, its result
    triage,        \* quick_score_jobs: the call, its inputs, its result
    session        \* app.py: st.session_state and the script's position

vars == <<pc, state, outcome, result, error, provider, prompt, drafterCalls,
          graderCalls, grades, da, triage, session>>

optVars == <<pc, state, outcome, result, error, provider, prompt, drafterCalls,
             graderCalls, grades>>

-----------------------------------------------------------------------------
(* Program constants *)

CONTEXT_LIMIT == 2000
MAX_REVISION_RETRIES == 2
SCORE_GOOD_ENOUGH == 8
DEEP_LIMIT == 4000

(* Bounds of the model *)

\* provider scores range over -1 .. MaxProviderScore
MaxProviderScore == 11
\* the call counters saturate at CallCap
CallCap == 4
\* a posting list holds at most MaxJobs postings
MaxJobs == 2
\* a generated job description holds at most MaxJobWords distinct words
MaxJobWords == 25
\* a generated resume holds at most MaxResumeWords of those words
MaxResumeWords == 8

-----------------------------------------------------------------------------
(* Lexemes and Python values *)

Lx(c, s, n) == [c |-> c, s |-> s, n |-> n]
Ch(s)    == Lx("ch", s, 0)
Fence    == Lx("fence", "FENCE", 0)
JsonWord == Lx("json", "json", 0)
LB       == Lx("lb", "{", 0)
RB       == Lx("rb", "}", 0)
LSQ      == Lx("lsq", "[", 0)
RSQ      == Lx("rsq", "]", 0)
Key(k)   == Lx("key", k, 0)
PyInt(n) == Lx("int", "", n)
PyFloat(tenths) == Lx("float", "", tenths)
PyStr(s) == Lx("str", s, 0)
PyNull   == Lx("null", "", 0)
Missing  == Lx("missing", "", 0)

ValueClasses == {"int", "float", "str", "null"}

\* a text of single characters
Chars(seq) == [i \in DOMAIN seq |-> Ch(seq[i])]

IsSpace(a) == a.c = "ch" /\ a.s \in {" ", "\n", "\t"}

RECURSIVE LStrip(_)
LStrip(t) == IF t # <<>> /\ IsSpace(Head(t)) THEN LStrip(Tail(t)) ELSE t

RECURSIVE RStrip(_)
RStrip(t) ==
    IF t # <<>> /\ IsSpace(t[Len(t)]) THEN RStrip(SubSeq(t, 1, Len(t) - 1)) ELSE t

\* str.strip()
Strip(t) == RStrip(LStrip(t))

Min(a, b) == IF a <= b THEN a ELSE b

\* bool(v) of a Python value
Truthy(v) ==
    CASE v.c = "int"   -> v.n # 0
      [] v.c = "float" -> v.n # 0
      [] v.c = "str"   -> v.s # ""
      [] OTHER         -> FALSE

\* the integers whose decimal spelling the strings of the model can hold
DecimalRange == (0 - 1) .. MaxProviderScore

\* int(v): [ok, n], ok = FALSE when int() raises (ValueError, TypeError)
ToInt(v) ==
    CASE v.c = "int" -> [ok |-> TRUE, n |-> v.n]
      [] v.c = "float" ->
            [ok |-> TRUE,
             n |-> IF v.n >= 0 THEN v.n \div 10 ELSE 0 - ((0 - v.n) \div 10)]
      [] v.c = "str" ->
            IF \E k \in DecimalRange : ToString(k) = v.s
            THEN [ok |-> TRUE, n |-> CHOOSE k \in DecimalRange : ToString(k) = v.s]
            ELSE [ok |-> FALSE, n |-> 0]
      [] OTHER -> [ok |-> FALSE, n |-> 0]

\* str(v)
ToStr(v) ==
    CASE v.c = "str" -> v.s
      [] v.c = "int" -> ToString(v.n)
      [] v.c = "float" ->
            IF v.n >= 0
            THEN ToString(v.n \div 10) \o "." \o ToString(v.n % 10)
            ELSE "-" \o ToString((0 - v.n) \div 10) \o "." \o ToString((0 - v.n) % 10)
      [] OTHER -> "None"

-----------------------------------------------------------------------------
(* _get_content and _slice *)

\* A provider response: it raises (kind "raise", error text err), is None,
\* is a message object with a content attribute (kind "msg"), or a dict
\* holding the text under "content" or under "message" -> "content".
\* isnone: the content is None.
Resp(kind, err, content, isnone) ==
    [kind |-> kind, err |-> err, content |-> content, isnone |-> isnone]

_get_content(resp) ==
    CASE resp.kind = "none" -> <<>>
      [] resp.kind = "msg" -> Strip(IF resp.isnone THEN <<>> ELSE resp.content)
      [] resp.kind \in {"dict_message", "dict_content"} ->
            Strip(IF resp.isnone THEN <<>> ELSE resp.content)
      [] OTHER -> Strip(resp.content)

_slice(s, limit) == SubSeq(s, 1, Min(Len(s), limit))

-----------------------------------------------------------------------------
(* json.loads and _extract_json *)

\* What json.loads returns: kind "dict" (members score, feedback, analysis,
\* each Missing when absent, size members in all), "list" (size elements),
\* "scalar" (the value v), or kind "invalid" when it raises.  NoneValue is
\* the None _extract_json returns.
Parsed(kind, sc, fb, an, size, v) ==
    [kind |-> kind, score |-> sc, feedback |-> fb, analysis |-> an,
     size |-> size, v |-> v]
Invalid   == Parsed("invalid", Missing, Missing, Missing, 0, Missing)
NoneValue == Parsed("none", Missing, Missing, Missing, 0, Missing)

NotSpace(a) == ~IsSpace(a)

\* the value of member k in the key/value lexemes kv: the last one wins
Member(kv, k) ==
    LET hits == {i \in 1 .. (Len(kv) \div 2) : kv[2 * i - 1].s = k}
    IN  IF hits = {} THEN Missing
        ELSE kv[2 * (CHOOSE i \in hits : \A j \in hits : j <= i)]

\* the distinct member names in kv
MemberNames(kv) == {kv[2 * i - 1].s : i \in 1 .. (Len(kv) \div 2)}

\* json.loads of the text u, stripped, whose lexemes between the first and
\* the last, whitespace left out, are inner
LoadsInner(u, inner) ==
    CASE Len(u) = 1 /\ u[1].c \in ValueClasses ->
            Parsed("scalar", Missing, Missing, Missing, 0, u[1])
      [] Len(u) >= 2 /\ u[1].c = "lsq" /\ u[Len(u)].c = "rsq"
            /\ \A i \in DOMAIN inner : inner[i].c \in ValueClasses ->
            Parsed("list", Missing, Missing, Missing, Len(inner), Missing)
      [] Len(u) >= 2 /\ u[1].c = "lb" /\ u[Len(u)].c = "rb"
            /\ Len(inner) % 2 = 0
            /\ \A i \in DOMAIN inner :
                  IF i % 2 = 1 THEN inner[i].c = "key"
                               ELSE inner[i].c \in ValueClasses ->
            Parsed("dict", Member(inner, "score"), Member(inner, "feedback"),
                   Member(inner, "analysis"),
                   Cardinality(MemberNames(inner)), Missing)
      [] OTHER -> Invalid

LoadsStripped(u) ==
    LoadsInner(u, IF Len(u) >= 2
                  THEN SelectSeq(SubSeq(u, 2, Len(u) - 1), NotSpace)
                  ELSE <<>>)

json_loads(text) == LoadsStripped(Strip(text))

\* the first position >= j of t that holds no whitespace (Len(t) + 1 if none)
SkipSpace(t, j) ==
    IF \E k \in j .. Len(t) : ~IsSpace(t[k])
    THEN CHOOSE k \in j .. Len(t) :
            ~IsSpace(t[k]) /\ \A m \in j .. (k - 1) : IsSpace(t[m])
    ELSE Len(t) + 1

\* after the fence at i: past the optional word json and the whitespace
GroupStart(t, i) ==
    SkipSpace(t, IF i + 1 <= Len(t) /\ t[i + 1].c = "json" THEN i + 2 ELSE i + 1)

\* re.search(r"FENCE(?:json)?\s*(\{[\s\S]*?\})\s*FENCE", t): the matches
\* <<i, e>>, i the opening fence and GroupStart(t, i)..e the group
FenceMatches(t) ==
    {m \in (DOMAIN t) \X (DOMAIN t) :
        /\ t[m[1]].c = "fence"
        /\ GroupStart(t, m[1]) <= Len(t)
        /\ t[GroupStart(t, m[1])].c = "lb"
        /\ m[2] > GroupStart(t, m[1])
        /\ t[m[2]].c = "rb"
        /\ SkipSpace(t, m[2] + 1) <= Len(t)
        /\ t[SkipSpace(t, m[2] + 1)].c = "fence"}

\* the group of the leftmost match among ms, the lazy group the shortest
FenceGroup(t, ms) ==
    LET m == CHOOSE x \in ms :
                \A y \in ms : x[1] < y[1] \/ (x[1] = y[1] /\ x[2] <= y[2])
    IN  SubSeq(t, GroupStart(t, m[1]), m[2])

\* re.search(r"\{[\s\S]*\}", t): the matches <<b, e>>
BraceMatches(t) ==
    {m \in (DOMAIN t) \X (DOMAIN t) :
        t[m[1]].c = "lb" /\ t[m[2]].c = "rb" /\ m[1] < m[2]}

\* the match found: from the first { to the last } after it
BraceGroup(t, ms) ==
    LET m == CHOOSE x \in ms :
                \A y \in ms : x[1] <= y[1] /\ (x[1] = y[1] => x[2] >= y[2])
    IN  SubSeq(t, m[1], m[2])

\* the three strategies in order, j1, j2 and j3 what json.loads makes of each
FirstValid(j1, j2, j3) ==
    IF j1.kind # "invalid" THEN j1
    ELSE IF j2.kind # "invalid" THEN j2
    ELSE IF j3.kind # "invalid" THEN j3
    ELSE NoneValue

ExtractStripped(text, fences, braces) ==
    FirstValid(IF fences # {} THEN json_loads(FenceGroup(text, fences)) ELSE Invalid,
               IF braces # {} THEN json_loads(BraceGroup(text, braces)) ELSE Invalid,
               json_loads(text))

ExtractFrom(text) == ExtractStripped(text, FenceMatches(text), BraceMatches(text))

_extract_json(text) == ExtractFrom(Strip(text))

\* bool(parsed): None, an empty dict or list and a falsy scalar are falsy
ParsedTruthy(p) ==
    CASE p.kind = "dict"   -> p.size > 0
      [] p.kind = "list"   -> p.size > 0
      [] p.kind = "scalar" -> Truthy(p.v)
      [] OTHER             -> FALSE

\* parsed.get(k, default) of a dict
DictGet(v, default) == IF v = Missing THEN default ELSE v

-----------------------------------------------------------------------------
(* optimize_resume_iterative: the drafter -> grader -> router graph *)

ResumeState(orig, job, draft, fb, sc, rev) ==
    [original_resume |-> orig, job_description |-> job, current_draft |-> draft,
     feedback |-> fb, score |-> sc, revision_count |-> rev]

\* the state app.invoke starts from
initial(resume, job_desc) ==
    ResumeState(resume, job_desc, resume, PyStr(""), 0, 0)

NoPrompt == [kind |-> "none", body |-> <<>>, job |-> <<>>, feedback |-> ""]

\* the user message the drafter sends
DrafterPrompt(st) ==
    LET original == _slice(st.original_resume, CONTEXT_LIMIT)
        job      == _slice(st.job_description, CONTEXT_LIMIT)
        current  == IF st.current_draft # <<>> THEN st.current_draft ELSE original
        fb       == IF Truthy(st.feedback) THEN ToStr(st.feedback) ELSE ""
    IN  IF st.revision_count = 0
        THEN [kind |-> "first", body |-> original, job |-> job, feedback |-> ""]
        ELSE [kind |-> "revise", body |-> _slice(current, CONTEXT_LIMIT),
              job |-> job, feedback |-> fb]

\* a node's outcome: it raises err, or returns the update upd of the state
Raise(err)  == [raised |-> TRUE, err |-> err, upd |-> <<>>]
Return(upd) == [raised |-> FALSE, err |-> "", upd |-> upd]

\* drafter_node without the fallback: an empty draft goes forward
drafter_node_no_fallback(st, resp) ==
    IF resp.kind = "raise" THEN Raise(resp.err)
    ELSE Return([st EXCEPT
            !.current_draft = _get_content(resp),
            !.revision_count = st.revision_count + 1])

\* drafter_node counting a revision twice
drafter_node_double_count(st, resp) ==
    LET original == _slice(st.original_resume, CONTEXT_LIMIT)
        current  == IF st.current_draft # <<>> THEN st.current_draft ELSE original
        draft    == _get_content(resp)
    IN  IF resp.kind = "raise" THEN Raise(resp.err)
        ELSE Return([st EXCEPT
                !.current_draft = IF draft = <<>> THEN current ELSE draft,
                !.revision_count = st.revision_count + 2])

\* drafter_node falling back to the original resume instead of the draft in
\* hand
drafter_node_fallback_original(st, resp) ==
    LET original == _slice(st.original_resume, CONTEXT_LIMIT)
        draft    == _get_content(resp)
    IN  IF resp.kind = "raise" THEN Raise(resp.err)
        ELSE Return([st EXCEPT
                !.current_draft = IF draft = <<>> THEN original ELSE draft,
                !.revision_count = st.revision_count + 1])

drafter_node(st, resp) ==
    LET original == _slice(st.original_resume, CONTEXT_LIMIT)
        current  == IF st.current_draft # <<>> THEN st.current_draft ELSE original
        revision == st.revision_count
        draft    == _get_content(resp)
    IN  IF resp.kind = "raise" THEN Raise(resp.err)
        ELSE Return([st EXCEPT
                !.current_draft = IF draft = <<>> THEN current ELSE draft,
                !.revision_count = revision + 1])

CouldNotGrade == PyStr("Could not grade.")

\* lines 150-158: the grade recorded for the content raw, parsed to parsed
Grade(st, raw, parsed) ==
    LET got == ToInt(DictGet(parsed.score, PyInt(0)))
    IN  IF raw = <<>> \/ ~ParsedTruthy(parsed)
        THEN Return([st EXCEPT !.score = 0, !.feedback = CouldNotGrade])
        ELSE IF parsed.kind # "dict" THEN Raise("AttributeError")
        ELSE IF ~got.ok THEN Raise("int() failed")
        ELSE Return([st EXCEPT
                !.score = got.n,
                !.feedback = DictGet(parsed.feedback, CouldNotGrade)])

GradeContent(st, raw) == Grade(st, raw, _extract_json(raw))

grader_node(st, resp) ==
    IF resp.kind = "raise" THEN Raise(resp.err)
    ELSE GradeContent(st, _get_content(resp))

\* router with the quality gate compared by > (a score of 8 is not enough)
router_gate_off_by_one(st) ==
    IF st.score > SCORE_GOOD_ENOUGH \/ st.revision_count >= MAX_REVISION_RETRIES
    THEN "__end__"
    ELSE "drafter"

\* router with the cap compared by > (one drafter run too many)
router_cap_off_by_one(st) ==
    IF st.score >= SCORE_GOOD_ENOUGH \/ st.revision_count > MAX_REVISION_RETRIES
    THEN "__end__"
    ELSE "drafter"

router(st) ==
    IF st.score >= SCORE_GOOD_ENOUGH \/ st.revision_count >= MAX_REVISION_RETRIES
    THEN "__end__"
    ELSE "drafter"

\* the text appended on failure: "\n\n[Error: e]"
ErrorAnnotation(e) == <<Ch("\n\n[Error: "), Ch(e), Ch("]")>>

\* a controller that lets the failure through to its caller
OnException_reraise(resume, e) ==
    [outcome |-> "raised", error |-> e, value |-> <<>>]

\* a controller that answers a failure with the bare resume
OnException_no_annotation(resume, e) ==
    [outcome |-> "returned", error |-> e, value |-> resume]

\* except Exception as e: the controller's answer to a failure e of the graph
OnException(resume, e) ==
    [outcome |-> "returned", error |-> e, value |-> resume \o ErrorAnnotation(e)]

\* a controller that answers with the resume it was given
OnEnd_returns_original(resume, st) ==
    [outcome |-> "returned", error |-> "", value |-> resume]

\* the controller's answer when the graph reaches END in state st
OnEnd(resume, st) ==
    [outcome |-> "returned", error |-> "",
     value |-> IF st.current_draft # <<>> THEN st.current_draft ELSE resume]

-----------------------------------------------------------------------------
(* The inputs of a run and the provider's behaviours *)

Resumes == {<<>>, Chars(<<" ">>), Chars(<<"p", "y">>)}
JobDescs == {Chars(<<"j", "\n", "t">>)}

NoResp == Resp("init", "", <<>>, FALSE)
Failure(err) == Resp("raise", err, <<>>, FALSE)
Message(content) == Resp("msg", "", content, FALSE)

DraftTexts == {Chars(<<"a">>), Chars(<<" ", "b", "\n">>)}

DraftResponses ==
    {Failure("timeout"), Resp("none", "", <<>>, TRUE), Resp("msg", "", <<>>, TRUE),
     Message(<<>>), Message(Chars(<<" ", "\n">>)),
     Resp("dict_content", "", Chars(<<"c">>), FALSE)}
    \cup {Message(d) : d \in DraftTexts}

ProviderScores == (0 - 1) .. MaxProviderScore

\* a JSON object with the members given (Missing: the member is absent)
Obj(k1, v1, k2, v2) ==
    <<LB>> \o (IF v1 = Missing THEN <<>> ELSE <<Key(k1), v1>>)
           \o (IF v2 = Missing THEN <<>> ELSE <<Key(k2), Ch(" "), v2>>)
           \o <<RB>>

Fenced(body) ==
    Chars(<<"H", "i", " ">>) \o <<Fence, JsonWord, Ch("\n")>> \o body
        \o <<Ch("\n"), Fence>>
FencedBare(body) == <<Fence>> \o body \o <<Fence, Ch(" "), Ch("x")>>
Embedded(body) == Chars(<<"x", " ">>) \o body \o Chars(<<" ", "y">>)

\* contents that are no JSON at all, or JSON that is no object
OddContents ==
    {Chars(<<"n", "o">>), <<LB, Key("score"), PyInt(7)>>, <<LB, Key("score"), RB>>,
     <<LB, RB>>, <<LSQ, RSQ>>, <<LSQ, PyInt(7), RSQ>>, <<PyInt(7)>>, <<PyInt(0)>>,
     <<LB, Key("score"), PyInt(7), RB, Ch(" "), LB, Key("score"), PyInt(9), RB>>,
     Fenced(<<LB, Key("score"), PyInt(9), Ch("x"), RB>>),
     <<Fence, Ch("x"), Fence>> \o Fenced(<<LB, Key("score"), PyInt(9), RB>>)}

GradeContents ==
    {Obj("score", PyInt(n), "feedback", PyStr("ok")) : n \in ProviderScores}
    \cup {Obj("score", v, "feedback", PyStr("ok")) :
            v \in {PyStr("high"), PyStr("7"), PyFloat(79), PyNull, Missing}}
    \cup {Obj("score", PyInt(7), "feedback", v) : v \in {Missing, PyInt(5)}}
    \cup {Obj("feedback", PyStr("ok"), "score", PyInt(9))}
    \cup {Fenced(Obj("score", PyInt(7), "feedback", PyStr("ok"))),
          FencedBare(Obj("score", PyInt(8), "feedback", PyStr("ok"))),
          Embedded(Obj("score", PyInt(3), "feedback", PyStr("ok")))}
    \cup OddContents

GradeResponses ==
    {Failure("timeout"), Message(<<>>), Message(Chars(<<" ">>))}
    \cup {Message(c) : c \in GradeContents}

-----------------------------------------------------------------------------
(* The run of optimize_resume_iterative *)

OptInit ==
    /\ pc = "drafter"
    /\ \E resume \in Resumes, job \in JobDescs : state = initial(resume, job)
    /\ outcome = "running"
    /\ result = <<>>
    /\ error = ""
    /\ provider = NoResp
    /\ prompt = NoPrompt
    /\ drafterCalls = 0
    /\ graderCalls = 0
    /\ grades = <<>>

\* the optimizer is not running
OptIdle ==
    /\ pc = "idle"
    /\ state = initial(<<>>, <<>>)
    /\ outcome = "idle"
    /\ result = <<>>
    /\ error = ""
    /\ provider = NoResp
    /\ prompt = NoPrompt
    /\ drafterCalls = 0
    /\ graderCalls = 0
    /\ grades = <<>>

\* app.invoke ends: by the exception a node raised, or at END
Finish(answer) ==
    /\ pc' = "done"
    /\ outcome' = answer.outcome
    /\ result' = answer.value
    /\ error' = answer.error

\* the graph after drafter_node answered r to the response resp
AfterDrafter(resp, r) ==
    /\ provider' = resp
    /\ prompt' = DrafterPrompt(state)
    /\ drafterCalls' = Min(drafterCalls + 1, CallCap)
    /\ IF r.raised
       THEN /\ Finish(OnException(state.original_resume, r.err))
            /\ state' = state
       ELSE /\ state' = r.upd
            /\ pc' = "grader"
            /\ UNCHANGED <<outcome, result, error>>

DrafterStep ==
    /\ pc = "drafter"
    /\ \E resp \in DraftResponses : AfterDrafter(resp, drafter_node(state, resp))
    /\ UNCHANGED <<graderCalls, grades, da, triage, session>>

\* the graph after grader_node answered r to the response resp: the
\* conditional edge follows the node at once
AfterGrader(resp, r) ==
    /\ provider' = resp
    /\ graderCalls' = Min(graderCalls + 1, CallCap)
    /\ IF r.raised
       THEN /\ Finish(OnException(state.original_resume, r.err))
            /\ state' = state
            /\ grades' = grades
       ELSE /\ state' = r.upd
            /\ grades' = IF Len(grades) < CallCap
                         THEN Append(grades, r.upd.score) ELSE grades
            /\ IF router(r.upd) = "__end__"
               THEN Finish(OnEnd(state.original_resume, r.upd))
               ELSE /\ pc' = "drafter"
                    /\ UNCHANGED <<outcome, result, error>>

GraderStep ==
    /\ pc = "grader"
    /\ \E resp \in GradeResponses : AfterGrader(resp, grader_node(state, resp))
    /\ UNCHANGED <<prompt, drafterCalls, da, triage, session>>

-----------------------------------------------------------------------------
(* agent_controller.py: _tokenize, _overlap_ratio, _fit_label *)

\* fit thresholds, in hundredths: OVERLAP_GOOD = 0.25, OVERLAP_STRETCH = 0.12
OVERLAP_GOOD == 25
OVERLAP_STRETCH == 12

GoodFit        == "Good Fit"
Stretch        == "Stretch"
NotRecommended == "Not Recommended"
FitLabels      == {GoodFit, Stretch, NotRecommended}

Letters ==
    <<"a", "b", "c", "d", "e", "f", "g", "h", "i", "j", "k", "l", "m",
      "n", "o", "p", "q", "r", "s", "t", "u", "v", "w", "x", "y", "z">>
Capitals ==
    <<"A", "B", "C", "D", "E", "F", "G", "H", "I", "J", "K", "L", "M",
      "N", "O", "P", "Q", "R", "S", "T", "U", "V", "W", "X", "Y", "Z">>
Digits == <<"0", "1", "2", "3", "4", "5", "6", "7", "8", "9">>

\* str.lower() of one character
Lower(c) ==
    IF \E i \in DOMAIN Capitals : Capitals[i] = c
    THEN Letters[CHOOSE i \in DOMAIN Capitals : Capitals[i] = c]
    ELSE c

\* the characters [a-z0-9] matches
Alnum == {Letters[i] : i \in DOMAIN Letters} \cup {Digits[i] : i \in DOMAIN Digits}

\* text.lower(), one entry per character; "" where the lexeme is no character
LowerText(t) ==
    [i \in 1 .. Len(t) |-> IF t[i].c = "ch" THEN Lower(t[i].s) ELSE ""]

\* re.findall(r"[a-z0-9]{2,}", low): the maximal runs of two or more
\* alphanumerics of the lowered text low, each from its first character to
\* the last one before a character that is none (or the end of the text)
Runs(low) ==
    LET n       == Len(low)
        Al(i)   == low[i] \in Alnum
        Ends(j) == j = n \/ ~Al(j + 1)
        End(i)  == CHOOSE j \in i .. n : Ends(j) /\ \A k \in i .. (j - 1) : ~Ends(k)
    IN  {SubSeq(low, i, End(i)) :
            i \in {b \in 1 .. n : /\ Al(b)
                                  /\ (b = 1 \/ ~Al(b - 1))
                                  /\ End(b) > b}}

_tokenize(text) == IF text = <<>> THEN {} ELSE Runs(LowerText(text))

\* a ratio is a fraction num/den of naturals, den > 0.  inter / len(job) is a
\* correctly rounded double, 0.25 is a double and 0.12 the double nearest
\* 12/100, so for every set a text can hold the comparisons of _fit_label
\* agree with the comparisons of the exact fractions.
Ratio(num, den) == [num |-> num, den |-> den]

_overlap_ratio(resume_tokens, job_tokens) ==
    IF job_tokens = {} THEN Ratio(0, 1)
    ELSE Ratio(Cardinality(resume_tokens \cap job_tokens), Cardinality(job_tokens))

\* ratio >= hundredths / 100
AtLeast(ratio, hundredths) == 100 * ratio.num >= hundredths * ratio.den

\* _fit_label with the thresholds compared by >
_fit_label_exclusive(ratio) ==
    IF 100 * ratio.num > OVERLAP_GOOD * ratio.den THEN GoodFit
    ELSE IF 100 * ratio.num > OVERLAP_STRETCH * ratio.den THEN Stretch
    ELSE NotRecommended

_fit_label(ratio) ==
    IF AtLeast(ratio, OVERLAP_GOOD) THEN GoodFit
    ELSE IF AtLeast(ratio, OVERLAP_STRETCH) THEN Stretch
    ELSE NotRecommended

\* round(ratio * 100): Python rounds a tie to the even neighbour.  For fewer
\* than 40 job tokens a tie is a multiple of 1/8, which is a double, and
\* ratio * 100 is exact; the first ratio the double arithmetic rounds the
\* other way is 23/40.
RoundPercent(ratio) ==
    LET q == (100 * ratio.num) \div ratio.den
        r == (100 * ratio.num) % ratio.den
    IN  IF 2 * r < ratio.den THEN q
        ELSE IF 2 * r > ratio.den THEN q + 1
        ELSE IF q % 2 = 0 THEN q ELSE q + 1

-----------------------------------------------------------------------------
(* AgentController.quick_score_jobs *)

\* a field of a posting: a text, or None / absent
Some(t)  == [none |-> FALSE, t |-> t]
NoText   == [none |-> TRUE, t |-> <<>>]
OrEmpty(o) == IF o.none THEN <<>> ELSE o.t

Posting(id, title, company, description, url) ==
    [id |-> id, title |-> title, company |-> company,
     description |-> description, url |-> url]

\* dict(j) with fit_label and overlap_score set
Enriched(j, label, overlap) ==
    [id |-> j.id, title |-> j.title, company |-> j.company,
     description |-> j.description, url |-> j.url,
     fit_label |-> label, overlap_score |-> overlap]

\* the loop body for posting j
ScoreOne(resume_tokens, j) ==
    LET desc       == OrEmpty(j.description)
        title      == OrEmpty(j.title)
        combined   == title \o <<Ch(" ")>> \o desc
        job_tokens == _tokenize(combined)
        ratio      == _overlap_ratio(resume_tokens, job_tokens)
    IN  Enriched(j, _fit_label(ratio), RoundPercent(ratio))

\* quick_score_jobs working on the caller's postings, not on copies
quick_score_jobs_in_place(resume_text, jobs) ==
    LET resume_tokens == _tokenize(resume_text)
        out == [i \in DOMAIN jobs |-> ScoreOne(resume_tokens, jobs[i])]
    IN  [out |-> out, jobs |-> out]

\* the call's effect: out, the list returned, and jobs, the caller's list
\* after the call (the loop works on a copy of each posting)
quick_score_jobs(resume_text, jobs) ==
    LET resume_tokens == _tokenize(resume_text)
    IN  [out  |-> [i \in DOMAIN jobs |-> ScoreOne(resume_tokens, jobs[i])],
         jobs |-> jobs]

-----------------------------------------------------------------------------
(* analyze_fit_deep *)

CouldNotAnalyze == "Could not analyze"

Analysis(score, analysis) == [raised |-> FALSE, score |-> score, analysis |-> analysis]
NoAnalysis == [raised |-> FALSE, score |-> 0, analysis |-> ""]
Sentinel == Analysis(0, CouldNotAnalyze)

DeepPrompt(resume, job_desc) ==
    [resume |-> _slice(resume, DEEP_LIMIT), job |-> _slice(job_desc, DEEP_LIMIT)]

\* lines 246-254: the result for the content raw, parsed to parsed
DeepResult(raw, parsed) ==
    LET got == ToInt(DictGet(parsed.score, PyInt(0)))
    IN  IF raw = <<>> THEN Return(Sentinel)
        ELSE IF ~ParsedTruthy(parsed) THEN Return(Sentinel)
        ELSE IF parsed.kind # "dict" THEN Raise("AttributeError")
        ELSE IF ~got.ok THEN Raise("int() failed")
        ELSE Return(Analysis(got.n,
                        ToStr(DictGet(parsed.analysis, PyStr(CouldNotAnalyze)))))

DeepContent(raw) == DeepResult(raw, _extract_json(raw))

\* the try block: it raises, or returns a result
DeepTry(resp) ==
    IF resp.kind = "raise" THEN Raise(resp.err) ELSE DeepContent(_get_content(resp))

\* a fallback that reports the error text
DeepOnException_message(err) == Analysis(0, err)

\* except Exception: the fixed fallback
DeepOnException(err) == Sentinel

analyze_fit_deep(resume, job_desc, resp) ==
    LET r == DeepTry(resp)
    IN  IF r.raised THEN DeepOnException(r.err) ELSE r.upd

\* app.py, the Deep Analysis button: the entry stored under analysis_<id>
DeepHandler(res) == IF res.raised THEN Analysis(0, "error") ELSE res

AnalysisContents ==
    {Obj("score", PyInt(n), "analysis", PyStr("fits")) : n \in ProviderScores}
    \cup {Obj("score", v, "analysis", PyStr("fits")) :
            v \in {PyStr("high"), PyStr("7"), PyFloat(79), PyNull, Missing}}
    \cup {Obj("score", PyInt(7), "analysis", v) : v \in {Missing, PyInt(5), PyNull}}
    \cup {Obj("feedback", PyStr("ok"), "zzz", Missing)}
    \cup {Fenced(Obj("score", PyInt(7), "analysis", PyStr("fits"))),
          FencedBare(Obj("score", PyInt(8), "analysis", PyStr("fits"))),
          Embedded(Obj("score", PyInt(3), "analysis", PyStr("fits")))}
    \cup OddContents

AnalysisResponses ==
    {Failure("timeout"), Failure("auth"), Resp("none", "", <<>>, TRUE),
     Resp("msg", "", <<>>, TRUE), Message(<<>>), Message(Chars(<<" ">>))}
    \cup {Message(c) : c \in AnalysisContents}

DeepInit ==
    \E resume \in Resumes, job \in JobDescs :
        da = [pc |-> "call", resume |-> resume, job |-> job,
              prompt |-> DeepPrompt(<<>>, <<>>), resp |-> NoResp,
              ret |-> NoAnalysis, stored |-> NoAnalysis]

DeepIdle ==
    da = [pc |-> "idle", resume |-> <<>>, job |-> <<>>,
          prompt |-> DeepPrompt(<<>>, <<>>), resp |-> NoResp,
          ret |-> NoAnalysis, stored |-> NoAnalysis]

\* one press of the Deep Analysis button
DeepAnalysis ==
    /\ da.pc = "call"
    /\ \E resp \in AnalysisResponses :
        LET res == analyze_fit_deep(da.resume, da.job, resp) IN
        da' = [da EXCEPT !.pc = "done", !.resp = resp,
                         !.prompt = DeepPrompt(da.resume, da.job),
                         !.ret = res, !.stored = DeepHandler(res)]
    /\ UNCHANGED <<optVars, triage, session>>

-----------------------------------------------------------------------------
(* The texts and postings the triage is run on *)

\* word i: a letter and a digit, 60 distinct words
Word(i, caps) ==
    <<Ch((IF caps THEN Capitals ELSE Letters)[((i - 1) \div 10) + 1]),
      Ch(Digits[((i - 1) % 10) + 1])>>

Separators == <<Chars(<<" ">>), Chars(<<",", " ">>), Chars(<<"\n">>),
                Chars(<<" ", "x", " ">>), Chars(<<"-">>)>>

\* a job description of the words 1..n, every second one capitalised, set
\* apart by blanks, commas, newlines, hyphens and the one-letter word x
RECURSIVE JobText(_)
JobText(n) ==
    IF n = 0 THEN <<>>
    ELSE JobText(n - 1) \o Separators[(n % Len(Separators)) + 1]
            \o Word(n, n % 2 = 0)

\* a resume of the words 1..k and the word zz, which no job holds
RECURSIVE ResumeWords(_)
ResumeWords(k) ==
    IF k = 0 THEN <<>> ELSE ResumeWords(k - 1) \o Word(k, FALSE) \o Chars(<<" ">>)

ResumeText(k) == ResumeWords(k) \o Chars(<<"z", "z", ".">>)

TriageResumes == {<<>>} \cup {ResumeText(k) : k \in 0 .. 3}

Pool ==
    {Posting("j1", Some(Word(1, TRUE)), "Acme", Some(JobText(4)), "u1"),
     Posting("j2", NoText, "", NoText, ""),
     Posting("j3", Some(Chars(<<"-">>)), "Initech", Some(<<>>), "u3"),
     Posting("j1", Some(Word(9, FALSE) \o Word(2, FALSE)), "Acme", NoText, "u4"),
     Posting("j5", Some(Chars(<<"x">>)), "Hooli", Some(JobText(8)), "u5")}

RECURSIVE ListsUpTo(_, _)
ListsUpTo(S, n) ==
    IF n = 0 THEN {<<>>}
    ELSE ListsUpTo(S, n - 1)
            \cup {Append(l, x) : l \in {m \in ListsUpTo(S, n - 1) : Len(m) = n - 1},
                                 x \in S}

JobLists == ListsUpTo(Pool, MaxJobs)

\* one posting with a generated description, for the scan of the ratios
FitTitles == {NoText, Some(<<>>), Some(Chars(<<"-", " ">>))}
FitPostings ==
    {Posting("f", t, "Acme", Some(JobText(n)), "u") :
        t \in FitTitles, n \in 0 .. MaxJobWords}
    \cup {Posting("f", t, "Acme", NoText, "u") : t \in FitTitles}
FitResumes == {<<>>} \cup {ResumeText(k) : k \in 0 .. MaxResumeWords}

NoCall(resume_text, jobs) ==
    [pc |-> "call", resume_text |-> resume_text, jobs |-> jobs, out |-> <<>>,
     jobs_after |-> jobs]

\* a call of quick_score_jobs on a list of the pool
TriageInit ==
    \E r \in TriageResumes, l \in JobLists : triage = NoCall(r, l)

\* a call of quick_score_jobs on one generated posting
FitInit ==
    \E r \in FitResumes, j \in FitPostings : triage = NoCall(r, <<j>>)

TriageIdle == triage = [NoCall(<<>>, <<>>) EXCEPT !.pc = "idle"]

\* the call: jobs is the caller's list after it, out the list returned
QuickScore ==
    /\ triage.pc = "call"
    /\ LET r == quick_score_jobs(triage.resume_text, triage.jobs) IN
       triage' = [triage EXCEPT !.pc = "done", !.out = r.out, !.jobs_after = r.jobs]
    /\ UNCHANGED <<optVars, da, session>>

-----------------------------------------------------------------------------
(* tools.py: parse_pdf, _mock_jobs and what search_jobs returns *)

\* an uploaded file: unreadable (PdfReader raises), or its pages' texts
Pdf(readable, pages) == [readable |-> readable, pages |-> pages]
NoFile == [none |-> TRUE, f |-> Pdf(FALSE, <<>>)]
File(f) == [none |-> FALSE, f |-> f]

\* "\n\n".join(parts)
RECURSIVE JoinPages(_)
JoinPages(pages) ==
    IF pages = <<>> THEN <<>>
    ELSE IF Len(pages) = 1 THEN pages[1]
    ELSE pages[1] \o Chars(<<"\n", "\n">>) \o JoinPages(Tail(pages))

parse_pdf(file) ==
    IF file.none \/ ~file.f.readable THEN <<>> ELSE Strip(JoinPages(file.f.pages))

\* the sample postings (their texts shortened to a few words)
_mock_jobs ==
    <<Posting("mock_1", Some(JobText(2)), "TechFlow Solutions", Some(JobText(4)), "u1"),
      Posting("mock_2", Some(JobText(1)), "DataDrive Inc.", Some(JobText(6)), "u2"),
      Posting("mock_3", Some(JobText(3)), "AI Ventures", Some(JobText(5)), "u3")>>

\* search_jobs returns postings whose fields are all strings, or the samples
SearchPool == {j \in Pool : ~j.title.none /\ ~j.description.none}

SearchResults ==
    {[jobs |-> l, used_mock |-> FALSE, api_error |-> ""] :
        l \in ListsUpTo(SearchPool, MaxJobs) \ {<<>>}}
    \cup {[jobs |-> _mock_jobs, used_mock |-> TRUE, api_error |-> "JSearch failed"]}

Uploads ==
    {Pdf(FALSE, <<>>), Pdf(TRUE, <<>>), Pdf(TRUE, <<ResumeText(1)>>),
     Pdf(TRUE, <<ResumeWords(2), ResumeText(0)>>)}

-----------------------------------------------------------------------------
(* app.py: one run of the script per user action *)

\* lines 32-39: the resume text after the upload block
AfterUpload(file, resume_text) ==
    IF file.none THEN resume_text ELSE parse_pdf(file)

\* the session after the first run of the script
SessionInit ==
    session = [resume_file |-> NoFile, resume_text |-> <<>>, jobs |-> <<>>,
               selected_job |-> 0, jobs_mock |-> FALSE, jobs_error |-> "",
               last |-> "start"]

SessionIdle ==
    session = [resume_file |-> NoFile, resume_text |-> <<>>, jobs |-> <<>>,
               selected_job |-> 0, jobs_mock |-> FALSE, jobs_error |-> "",
               last |-> "idle"]

\* the user puts a file in the uploader: the script runs, no button pressed
UploadResume ==
    /\ session.last # "idle"
    /\ \E f \in Uploads :
        session' = [session EXCEPT
            !.resume_file = File(f),
            !.resume_text = AfterUpload(File(f), session.resume_text),
            !.last = "upload"]
    /\ UNCHANGED <<optVars, da, triage>>

\* the user clears the uploader: the script runs, no button pressed
RemoveResume ==
    /\ session.last # "idle"
    /\ ~session.resume_file.none
    /\ session' = [session EXCEPT
            !.resume_file = NoFile,
            !.resume_text = AfterUpload(NoFile, session.resume_text),
            !.last = "remove"]
    /\ UNCHANGED <<optVars, da, triage>>

\* the user presses Find Jobs: the script runs the upload block, then the
\* button's handler
FindJobs ==
    /\ session.last # "idle"
    /\ \E found \in SearchResults :
        LET text     == AfterUpload(session.resume_file, session.resume_text)
            enriched == quick_score_jobs(text, found.jobs).out
        IN  session' = [session EXCEPT
                !.resume_text = text,
                !.jobs = enriched,
                !.selected_job = 0,
                !.jobs_mock = found.used_mock,
                !.jobs_error = found.api_error,
                !.last = "find"]
    /\ UNCHANGED <<optVars, da, triage>>

\* the user presses Chat about this job on card i
SelectJob ==
    /\ session.last # "idle"
    /\ \E i \in DOMAIN session.jobs :
        session' = [session EXCEPT
            !.resume_text = AfterUpload(session.resume_file, session.resume_text),
            !.selected_job = i,
            !.last = "select"]
    /\ UNCHANGED <<optVars, da, triage>>

-----------------------------------------------------------------------------
(* Specifications *)

\* one run of optimize_resume_iterative
Init == OptInit /\ DeepIdle /\ TriageIdle /\ SessionIdle
Next == DrafterStep \/ GraderStep
Spec == Init /\ [][Next]_vars

\* the run with the scheduling of a sequential program: a node that can run
\* does run (each provider call returns or raises within its timeout)
FairSpec == Spec /\ WF_vars(DrafterStep) /\ WF_vars(GraderStep)

\* one call of analyze_fit_deep
DeepSpecInit == OptIdle /\ DeepInit /\ TriageIdle /\ SessionIdle
DeepSpec == DeepSpecInit /\ [][DeepAnalysis]_vars

\* one call of quick_score_jobs on a list of postings
TriageSpecInit == OptIdle /\ DeepIdle /\ TriageInit /\ SessionIdle
TriageSpec == TriageSpecInit /\ [][QuickScore]_vars

\* one call of quick_score_jobs on one generated posting
FitSpecInit == OptIdle /\ DeepIdle /\ FitInit /\ SessionIdle
FitSpec == FitSpecInit /\ [][QuickScore]_vars

\* a session of the app
SessionSpecInit == OptIdle /\ DeepIdle /\ TriageIdle /\ SessionInit
SessionNext == UploadResume \/ RemoveResume \/ FindJobs \/ SelectJob
SessionSpec == SessionSpecInit /\ [][SessionNext]_vars

-----------------------------------------------------------------------------
(* Properties of the optimization run *)

\* C1: in every run the drafter runs at most 2 times and the grader at most
\* 2 times, and a run that ends with every grade equal to 1 ends with
\* revision_count = 2.
C1_AtMostTwoRounds ==
    /\ drafterCalls <= 2
    /\ graderCalls <= 2
    /\ (pc = "done" /\ error = "" /\ \A i \in DOMAIN grades : grades[i] = 1)
            => state.revision_count = 2

\* a run in which the grader answered 1 twice has ended after two rounds
C1_Witness ==
    /\ pc = "done"
    /\ grades = <<1, 1>>
    /\ drafterCalls = 2
    /\ graderCalls = 2
    /\ state.revision_count = 2

\* C2: every run leaves the drafting/grading loop and returns a text to its
\* caller, whatever the provider does.
C2_Terminates == <>(pc = "done" /\ outcome = "returned")

\* a run has returned after an empty draft and two ungradable responses
C2_Witness ==
    /\ pc = "done"
    /\ outcome = "returned"
    /\ grades = <<0, 0>>
    /\ state.original_resume # <<>>
    /\ result = state.original_resume
    /\ error = ""

\* the step in hand is a node failing: the provider call raises, or the
\* node's own code does
NodeFails ==
    \/ pc = "drafter" /\ drafter_node(state, provider').raised
    \/ pc = "grader" /\ grader_node(state, provider').raised

\* C3: the controller never raises to its caller; when a failure escapes the
\* drafter or the grader, in the first round or the second, it returns the
\* original resume followed by the bracketed error annotation.
C3_FailureReturnsAnnotatedOriginal ==
    [][/\ outcome' # "raised"
       /\ NodeFails =>
            /\ pc' = "done"
            /\ outcome' = "returned"
            /\ error' # ""
            /\ result' = state.original_resume
                            \o <<Ch("\n\n[Error: "), Ch(error'), Ch("]")>>]_vars

\* the drafter failed in the second round, an intermediate draft in hand,
\* and the caller has the annotated original
C3_Witness ==
    /\ pc = "done"
    /\ drafterCalls = 2
    /\ graderCalls = 1
    /\ provider.kind = "raise"
    /\ state.current_draft # state.original_resume
    /\ state.original_resume # <<>>
    /\ result = state.original_resume \o ErrorAnnotation("timeout")

\* the provider call of the step in hand raises
CallFails == pc \in {"drafter", "grader"} /\ provider'.kind = "raise"

\* the provider call of the step in hand returns no text
CallEmpty ==
    /\ pc \in {"drafter", "grader"}
    /\ provider'.kind # "raise"
    /\ _get_content(provider') = <<>>

\* the transition that follows a grade: Done at the gate or the cap, Drafting
\* otherwise, no failure recorded
PostGrading ==
    /\ error' = ""
    /\ pc' = IF state'.score >= 8 \/ state'.revision_count >= 2
             THEN "done" ELSE "drafter"

Malformed(resp) ==
    LET p == _extract_json(_get_content(resp))
    IN  /\ resp.kind # "raise"
        /\ _get_content(resp) # <<>>
        /\ \/ p.kind = "none"
           \/ p.kind = "dict" /\ p.size = 0
           \/ p.kind = "dict" /\ p.score.c \notin {"int", "missing"}

\* C5: a malformed grading response (unparsable text, an empty object, a
\* score that is no integer) is never fatal: the grade recorded is score 0
\* with feedback "Could not grade." and the run takes the post-grading
\* transition.
C5_MalformedGradeFallsBack ==
    [][(pc = "grader" /\ Malformed(provider')) =>
            /\ state'.score = 0
            /\ state'.feedback = PyStr("Could not grade.")
            /\ PostGrading]_vars

\* C10: a grading step that records a grade moves to Done exactly when
\* score >= 8 or revision_count >= 2 and back to Drafting otherwise; the
\* next drafter invocation finds the new score and feedback in the state and
\* sends the feedback; a first grade of 9 ends the run after one drafter
\* invocation.
C10_GateOrCapEndsRun ==
    [][/\ (pc = "grader" /\ error' = "") =>
            /\ pc' \in {"done", "drafter"}
            /\ pc' = "done" <=> (state'.score >= 8 \/ state'.revision_count >= 2)
            /\ state'.score = grades'[Len(grades')]
       /\ (pc = "drafter" /\ grades # <<>>) =>
            /\ state.score = grades[Len(grades)]
            /\ prompt'.kind = "revise"
            /\ prompt'.feedback =
                    (IF Truthy(state.feedback) THEN ToStr(state.feedback) ELSE "")
            /\ error' = "" => (state'.score = state.score
                                /\ state'.feedback = state.feedback)
       /\ (grades' # <<>> /\ grades'[1] = 9) =>
            (pc' = "done" /\ drafterCalls' = 1 /\ graderCalls' = 1)]_vars

\* a first grade of 7 sent the run back to drafting, and the second drafter
\* invocation carried the grader's feedback
C10_Witness ==
    /\ pc = "grader"
    /\ drafterCalls = 2
    /\ grades = <<7>>
    /\ state.score = 7
    /\ prompt.kind = "revise"
    /\ prompt.feedback = "ok"

-----------------------------------------------------------------------------
(* Properties of the triage *)

\* C6: quick_score_jobs returns a list as long as its input, the ids in the
\* input's order, every entry with an overlap_score and one of the three fit
\* labels, and leaves the input postings as they were.
C6_TriageKeepsCountOrderInput ==
    triage.pc = "done" =>
        /\ Len(triage.out) = Len(triage.jobs)
        /\ \A i \in DOMAIN triage.jobs :
            /\ triage.out[i].id = triage.jobs[i].id
            /\ triage.out[i].fit_label \in FitLabels
            /\ triage.out[i].overlap_score \in 0 .. 100
        /\ triage.jobs_after = triage.jobs

\* two postings scored, the first without title and description, the second
\* matching the resume
C6_Witness ==
    /\ triage.pc = "done"
    /\ Len(triage.out) = 2
    /\ triage.out[1].id = "j2"
    /\ triage.out[1].title.none
    /\ triage.out[1].fit_label = NotRecommended
    /\ triage.out[2].id = "j1"
    /\ triage.out[2].fit_label = GoodFit

\* the tokens of posting j, and those it shares with the resume
TokensOf(j) == _tokenize(OrEmpty(j.title) \o <<Ch(" ")>> \o OrEmpty(j.description))
SharedWith(resume_text, j) == _tokenize(resume_text) \cap TokensOf(j)

LabelRank(label) ==
    CASE label = GoodFit -> 2 [] label = Stretch -> 1 [] OTHER -> 0

\* the label of a posting with inter of its size tokens in the resume
LabelIs(label, score, inter, size) ==
    /\ label = GoodFit <=> (size > 0 /\ 100 * inter >= 25 * size)
    /\ label = Stretch <=>
            (size > 0 /\ 100 * inter >= 12 * size /\ 100 * inter < 25 * size)
    /\ label = NotRecommended <=> (size = 0 \/ 100 * inter < 12 * size)
    /\ size = 0 => (label = NotRecommended /\ score = 0)
    \* monotonic: a larger ratio never has a lower label
    /\ \A d \in 1 .. MaxJobWords : \A k \in 0 .. d :
            (size > 0 /\ k * size >= inter * d)
                => LabelRank(_fit_label(Ratio(k, d))) >= LabelRank(label)

\* C7: the fit label is GoodFit exactly when the overlap ratio is >= 0.25,
\* Stretch exactly when 0.12 <= ratio < 0.25, NotRecommended otherwise, a
\* larger ratio never has a lower label, and a posting without tokens is
\* NotRecommended with overlap_score 0 whatever the resume.
C7_LabelIsStepFunctionOfRatio ==
    triage.pc = "done" =>
        \A i \in DOMAIN triage.jobs :
            LabelIs(triage.out[i].fit_label, triage.out[i].overlap_score,
                    Cardinality(SharedWith(triage.resume_text, triage.jobs[i])),
                    Cardinality(TokensOf(triage.jobs[i])))

\* a posting of 25 words, 3 of them in the resume: the ratio is 0.12, on the
\* boundary, and the label Stretch
C7_Witness ==
    /\ triage.pc = "done"
    /\ Cardinality(TokensOf(triage.jobs[1])) = 25
    /\ Cardinality(SharedWith(triage.resume_text, triage.jobs[1])) = 3
    /\ triage.out[1].fit_label = Stretch
    /\ triage.out[1].overlap_score = 12

-----------------------------------------------------------------------------
(* Properties of Deep Analysis *)

\* the call failed: the provider raised or returned no text, no JSON object
\* with a member can be extracted from the text, or the object extracted
\* holds neither member or a score that int() refuses
DeepFailed(resp) ==
    LET raw == _get_content(resp)
        p   == _extract_json(raw)
    IN  \/ resp.kind = "raise"
        \/ raw = <<>>
        \/ p.kind # "dict"
        \/ p.score = Missing /\ p.analysis = Missing
        \/ p.score # Missing /\ ~ToInt(p.score).ok

\* C8: analyze_fit_deep never raises to its caller, and on a failure (the
\* provider call fails, returns empty content, or returns text that does not
\* parse as the structured result) it returns exactly score 0 with analysis
\* "Could not analyze".
C8_DeepFailureReturnsSentinel ==
    da.pc = "done" =>
        /\ ~da.ret.raised
        /\ DeepFailed(da.resp) =>
                (da.ret.score = 0 /\ da.ret.analysis = "Could not analyze")

\* the provider call raised and the caller has the sentinel
C8_Witness ==
    /\ da.pc = "done"
    /\ da.resp.kind = "raise"
    /\ da.ret = [raised |-> FALSE, score |-> 0, analysis |-> "Could not analyze"]
    /\ da.stored = da.ret

-----------------------------------------------------------------------------
(* Properties of the session *)

\* the posting an enriched entry was made from
Source(e) == Posting(e.id, e.title, e.company, e.description, e.url)

\* C9: after any sequence of uploads and Find Jobs, every posting of the
\* session's job list carries the overlap_score and fit_label computed from
\* the session's current resume text.
C9_JobsScoredFromCurrentResume ==
    \A i \in DOMAIN session.jobs :
        session.jobs[i] =
            ScoreOne(_tokenize(session.resume_text), Source(session.jobs[i]))

-----------------------------------------------------------------------------
(* Properties of the optimization state *)

\* C11: revision_count starts at 0, grows by exactly 1 in every drafter
\* execution that returns (empty content included), is left alone by the
\* grader and the router, never decreases, and so equals the number of
\* drafter executions that have returned so far.
C11_RevisionCountsDrafterRuns ==
    [][/\ (drafterCalls = 0 => state.revision_count = 0)
       /\ (pc = "drafter" /\ error' = "") =>
            /\ state'.revision_count = state.revision_count + 1
            /\ state'.revision_count = drafterCalls'
       /\ pc = "grader" => state'.revision_count = state.revision_count
       /\ state'.revision_count >= state.revision_count]_vars

\* the second drafter execution got empty content and counted all the same
C11_Witness ==
    /\ pc = "grader"
    /\ drafterCalls = 2
    /\ graderCalls = 1
    /\ provider = Message(<<>>)
    /\ state.revision_count = 2

\* C12 as stated: current_draft is never empty after a drafter step, and no
\* empty draft reaches the grader or the final result.
C12_DraftNeverEmpty ==
    (drafterCalls >= 1 /\ error = "") =>
        /\ state.current_draft # <<>>
        /\ pc = "done" => result # <<>>

\* C12 amended: a drafter step that gets empty content leaves current_draft
\* equal to the draft before the step; in a run started with a resume that
\* is not empty, current_draft is not empty after any drafter step, at the
\* grader, or in the final result.
C12_EmptyContentKeepsDraft ==
    [][/\ (pc = "drafter" /\ error' = "" /\ _get_content(provider') = <<>>) =>
            state'.current_draft = state.current_draft
       /\ (state.original_resume # <<>> /\ error' = "") =>
            /\ state.current_draft # <<>>
            /\ state'.current_draft # <<>>
            /\ pc' = "done" => result' # <<>>]_vars

\* the first drafter call got a response without content: the draft is
\* still the resume the run started with
C12_Witness ==
    /\ pc = "grader"
    /\ drafterCalls = 1
    /\ provider = Resp("none", "", <<>>, TRUE)
    /\ state.original_resume = Chars(<<"p", "y">>)
    /\ state.current_draft = state.original_resume

\* C13: in every reachable state the score of the state is 0 or an integer
\* in 1..10, whatever score the grading response holds.
C13_ScoreInRange == state.score \in 0 .. 10

\* C14: a run that reaches Done without a failure returns the current_draft
\* of its final state, which is the draft the last drafter invocation left,
\* whatever the grades: a second draft graded lower than the first is the
\* one returned.
C14_ReturnsLastDraft ==
    [][(pc = "grader" /\ pc' = "done" /\ error' = "") =>
            /\ outcome' = "returned"
            /\ result' = state'.current_draft
            /\ result' = state.current_draft]_vars

\* the first draft "a" was graded 7, the second draft "b" 3, and "b" is
\* returned
C14_Witness ==
    /\ pc = "done"
    /\ error = ""
    /\ grades = <<7, 3>>
    /\ prompt.kind = "revise"
    /\ prompt.body = Chars(<<"a">>)
    /\ state.current_draft = Chars(<<"b">>)
    /\ result = Chars(<<"b">>)

====
